---- MODULE Spec2Model ----
(***************************************************************************)
(* The scroll-reveal mechanism of the landing page (Page4 and Page5 of     *)
(* App.jsx).  Each view keeps an array of element refs (pointsRef /        *)
(* boxRefs), creates one IntersectionObserver in a mount effect, observes   *)
(* every non-empty slot, adds the CSS class 'show' to the target of every  *)
(* intersecting entry, and unobserves the non-empty slots in the effect's  *)
(* cleanup.  Page4 and Page5 differ only in the threshold handed to the    *)
(* platform (0.3 / 0.2), which the callback never reads.                   *)
(*                                                                         *)
(* Spec        the view as React drives it: refs attached in slot order,   *)
(*             then the effect, then events, then the unmount (ref         *)
(*             detaches and the effect cleanup, in either order).          *)
(* HarnessSpec the same handlers called directly: registrations, then      *)
(*             start, stop and events in any order.                        *)
(* LiveSpec    Spec with the fairness of the event loop.                   *)
(***************************************************************************)
EXTENDS Integers, Sequences, FiniteSets

\* pointItems / benefits hold four items, so four refs are rendered.
NumSlots == 4
\* Most IntersectionObserver instances created in one behaviour.
MaxObservers == 2
\* Most entries pending delivery at a time.
MaxQueue == 2

\* The value React hands a ref callback when it detaches the ref.
Null == 0

Slots == 0 .. (NumSlots - 1)
\* The DOM node rendered for slot i (key = i).
Node(i) == i + 1
Nodes == {Node(i) : i \in Slots}
Observers == 1 .. MaxObservers

VARIABLES
    phase,        \* "mounting", "mounted" or "unmounting"
    cursor,       \* next slot whose ref React attaches / detaches in a commit
    pointsRef,    \* pointsRef.current / boxRefs.current: slot -> node or Null
    facility,     \* TRUE iff the runtime defines IntersectionObserver
    error,        \* TRUE once a handler has thrown
    nObs,         \* number of IntersectionObserver instances created
    targets,      \* observer -> the nodes it observes
    queue,        \* observer -> entries queued for its callback
    show,         \* node -> its classList contains 'show'
    cleaned,      \* observers whose effect cleanup has been called
    intersected   \* history: nodes an intersecting entry was delivered for

vars == <<phase, cursor, pointsRef, facility, error, nObs, targets, queue,
          show, cleaned, intersected>>

\* Plausible slips of the loop guard: dropped, or inverted.
TruthyDropped(point) == TRUE
TruthyInverted(point) == point = Null

\* `if (point)`: the guard of the observe and unobserve loops.
Truthy(point) == point # Null

\* observer.observe(null) / unobserve(null) throws a TypeError.
PlatformThrows(point) == point = Null

\* pointsRef.current.forEach(point => { if (point) observer.observe(point) })
\* from slot i on; the loop ends at the first call that throws.
RECURSIVE ObserveAll(_, _, _)
ObserveAll(tg, ref, i) ==
    IF i = NumSlots THEN [targets |-> tg, threw |-> FALSE]
    ELSE IF Truthy(ref[i])
         THEN IF PlatformThrows(ref[i])
              THEN [targets |-> tg, threw |-> TRUE]
              ELSE ObserveAll(tg \cup {ref[i]}, ref, i + 1)
         ELSE ObserveAll(tg, ref, i + 1)

\* pointsRef.current.forEach(point => { if (point) observer.unobserve(point) })
RECURSIVE UnobserveAll(_, _, _)
UnobserveAll(tg, ref, i) ==
    IF i = NumSlots THEN [targets |-> tg, threw |-> FALSE]
    ELSE IF Truthy(ref[i])
         THEN IF PlatformThrows(ref[i])
              THEN [targets |-> tg, threw |-> TRUE]
              ELSE UnobserveAll(tg \ {ref[i]}, ref, i + 1)
         ELSE UnobserveAll(tg, ref, i + 1)

\* Plausible slips of the callback body: classList.toggle('show',
\* entry.isIntersecting); the mark put on every node; the isIntersecting
\* test left out.
ApplyEntryToggle(sh, entry) ==
    [sh EXCEPT ![entry.target] = entry.isIntersecting]
ApplyEntryAll(sh, entry) ==
    IF entry.isIntersecting THEN [e \in DOMAIN sh |-> TRUE] ELSE sh
ApplyEntryAlways(sh, entry) ==
    [sh EXCEPT ![entry.target] = TRUE]

\* if (entry.isIntersecting) entry.target.classList.add('show')
ApplyEntry(sh, entry) ==
    IF entry.isIntersecting THEN [sh EXCEPT ![entry.target] = TRUE] ELSE sh

\* entries.forEach(entry => ...)
RECURSIVE ForEachEntry(_, _)
ForEachEntry(sh, entries) ==
    IF entries = << >> THEN sh
    ELSE ForEachEntry(ApplyEntry(sh, Head(entries)), Tail(entries))

\* The targets of the intersecting entries of a batch.
IntersectingTargets(entries) ==
    {entries[k].target : k \in {j \in 1 .. Len(entries) : entries[j].isIntersecting}}

----------------------------------------------------------------------------
\* The handlers: what each does to the state of the view.

\* ref={el => pointsRef.current[i] = el}
RegisterRef(i, el) ==
    pointsRef' = [pointsRef EXCEPT ![i] = el]

\* The effect body: new IntersectionObserver(callback, {threshold}) and the
\* observe loop.  Without the facility the constructor call throws.
StartEffect ==
    IF ~facility
    THEN /\ error' = TRUE
         /\ UNCHANGED <<nObs, targets>>
    ELSE LET r == ObserveAll({}, pointsRef, 0) IN
         /\ nObs' = nObs + 1
         /\ targets' = [targets EXCEPT ![nObs + 1] = r.targets]
         /\ error' = (error \/ r.threw)

\* The closure the effect returns, for observer o.
StopEffect(o) ==
    LET r == UnobserveAll(targets[o], pointsRef, 0) IN
    /\ targets' = [targets EXCEPT ![o] = r.targets]
    /\ error' = (error \/ r.threw)
    /\ cleaned' = cleaned \cup {o}

\* The observer callback of o, called with the entries queued for it.
OnIntersect(o) ==
    /\ show' = ForEachEntry(show, queue[o])
    /\ intersected' = intersected \cup IntersectingTargets(queue[o])
    /\ queue' = [queue EXCEPT ![o] = << >>]

\* The number of entries pending delivery at the observers 1 .. o.
RECURSIVE Pending(_)
Pending(o) == IF o = 0 THEN 0 ELSE Len(queue[o]) + Pending(o - 1)

\* The platform queues an entry for a node that o observes.
Enqueue(o, e, b) ==
    /\ e \in targets[o]
    /\ Pending(MaxObservers) < MaxQueue
    /\ queue' = [queue EXCEPT ![o] = Append(@, [target |-> e, isIntersecting |-> b])]

----------------------------------------------------------------------------
Init ==
    /\ phase = "mounting"
    /\ cursor = 0
    /\ pointsRef = [i \in Slots |-> Null]
    /\ facility \in BOOLEAN
    /\ error = FALSE
    /\ nObs = 0
    /\ targets = [o \in Observers |-> {}]
    /\ queue = [o \in Observers |-> << >>]
    /\ show = [e \in Nodes |-> FALSE]
    /\ cleaned = {}
    /\ intersected = {}

\* React is inside a synchronous commit: no other handler can run.
InCommit == cursor < NumSlots

\* Mount commit: React attaches the refs in slot order.
Attach ==
    /\ phase = "mounting"
    /\ cursor < NumSlots
    /\ RegisterRef(cursor, Node(cursor))
    /\ cursor' = cursor + 1
    /\ UNCHANGED <<phase, facility, error, nObs, targets, queue, show, cleaned,
                   intersected>>

\* The mount effect, run once (deps []) after the commit.  An error thrown
\* by an effect is uncaught: React unmounts the tree.
Start ==
    /\ phase = "mounting"
    /\ cursor = NumSlots
    /\ nObs < MaxObservers
    /\ StartEffect
    /\ phase' = IF error' THEN "unmounting" ELSE "mounted"
    /\ cursor' = IF error' THEN 0 ELSE cursor
    /\ UNCHANGED <<pointsRef, facility, queue, show, cleaned, intersected>>

\* A visibility crossing of an observed node; a node out of the document
\* cannot intersect.
Cross(o, e, b) ==
    /\ ~InCommit
    /\ o \in 1 .. nObs
    /\ b => phase = "mounted"
    /\ Enqueue(o, e, b)
    /\ UNCHANGED <<phase, cursor, pointsRef, facility, error, nObs, targets,
                   show, cleaned, intersected>>

\* The event loop runs the callback of o with its queued entries.
Deliver(o) ==
    /\ ~InCommit
    /\ o \in 1 .. nObs
    /\ queue[o] # << >>
    /\ OnIntersect(o)
    /\ UNCHANGED <<phase, cursor, pointsRef, facility, error, nObs, targets,
                   cleaned>>

\* The view unmounts; the cleanup is left for after the commit (React 17+).
Unmount ==
    /\ phase = "mounted"
    /\ phase' = "unmounting"
    /\ cursor' = 0
    /\ UNCHANGED <<pointsRef, facility, error, nObs, targets, queue, show,
                   cleaned, intersected>>

\* Unmount commit: React detaches the refs in slot order.
Detach ==
    /\ phase = "unmounting"
    /\ cursor < NumSlots
    /\ RegisterRef(cursor, Null)
    /\ cursor' = cursor + 1
    /\ UNCHANGED <<phase, facility, error, nObs, targets, queue, show, cleaned,
                   intersected>>

\* The effect cleanup, called once per effect: either as the unmount begins,
\* before the refs are detached (React 16), or after the unmount commit.
Cleanup(o) ==
    /\ o \in 1 .. nObs
    /\ o \notin cleaned
    /\ \/ phase = "mounted"
       \/ phase = "unmounting" /\ cursor = NumSlots
    /\ StopEffect(o)
    /\ phase' = "unmounting"
    /\ cursor' = IF phase = "mounted" THEN 0 ELSE cursor
    /\ UNCHANGED <<pointsRef, facility, nObs, queue, show, intersected>>

Next ==
    \/ Attach
    \/ Start
    \/ \E o \in Observers, e \in Nodes, b \in BOOLEAN : Cross(o, e, b)
    \/ \E o \in Observers : Deliver(o)
    \/ Unmount
    \/ Detach
    \/ \E o \in Observers : Cleanup(o)

Spec == Init /\ [][Next]_vars

\* The event loop runs every queued callback, and a commit runs to its end.
LiveSpec ==
    /\ Spec
    /\ \A o \in Observers : WF_vars(Deliver(o))
    /\ WF_vars(Attach)
    /\ WF_vars(Start)
    /\ WF_vars(Detach)

----------------------------------------------------------------------------
\* The handlers called directly, as a test harness with a fake observer
\* calls them: the registrations of the render pass first, then start, stop
\* and the events in any order and any number of times.

HRegister(i, el) ==
    /\ nObs = 0
    /\ RegisterRef(i, el)
    /\ UNCHANGED <<phase, cursor, facility, error, nObs, targets, queue, show,
                   cleaned, intersected>>

HStart ==
    /\ nObs < MaxObservers
    /\ StartEffect
    /\ UNCHANGED <<phase, cursor, pointsRef, facility, queue, show, cleaned,
                   intersected>>

HStop(o) ==
    /\ o \in 1 .. nObs
    /\ StopEffect(o)
    /\ UNCHANGED <<phase, cursor, pointsRef, facility, nObs, queue, show,
                   intersected>>

HCross(o, e, b) ==
    /\ o \in 1 .. nObs
    /\ Enqueue(o, e, b)
    /\ UNCHANGED <<phase, cursor, pointsRef, facility, error, nObs, targets,
                   show, cleaned, intersected>>

HDeliver(o) ==
    /\ o \in 1 .. nObs
    /\ queue[o] # << >>
    /\ OnIntersect(o)
    /\ UNCHANGED <<phase, cursor, pointsRef, facility, error, nObs, targets,
                   cleaned>>

HarnessNext ==
    \/ \E i \in Slots : \E el \in {Null, Node(i)} : HRegister(i, el)
    \/ HStart
    \/ \E o \in Observers : HStop(o)
    \/ \E o \in Observers, e \in Nodes, b \in BOOLEAN : HCross(o, e, b)
    \/ \E o \in Observers : HDeliver(o)

HarnessSpec == Init /\ [][HarnessNext]_vars

----------------------------------------------------------------------------
\* Properties of the reveal mechanism.

\* Observer o's callback runs in this step: its queue is handed over.
Delivered(o) == queue[o] # << >> /\ queue'[o] = << >>

\* The effect cleanup of o runs in this step (Spec calls it once).
Stopped(o) == o \notin cleaned /\ o \in cleaned'

\* An intersecting entry for node e is pending delivery.
PendingReveal(e) ==
    \E o \in Observers : \E k \in 1 .. Len(queue[o]) :
        queue[o][k] = [target |-> e, isIntersecting |-> TRUE]

\* The view is unmounted: refs detached and every cleanup called.
Unmounted ==
    phase = "unmounting" /\ cursor = NumSlots /\ cleaned = 1 .. nObs

\* C1: once a node carries 'show', no step of the view removes it.
RevealMonotonic ==
    [][\A e \in Nodes : show[e] => show'[e]]_vars

\* A revealed node whose view has since been stopped and unmounted.
RevealedAfterUnmount ==
    Unmounted /\ nObs > 0 /\ \E e \in Nodes : show[e]

\* C2: once the cleanup of an observer has run, that observer observes
\* nothing, whatever the slots held when it ran; and when it ran before any
\* intersecting entry was delivered, no node carries 'show'.
StopReleasesAll ==
    /\ \A o \in cleaned : targets[o] = {}
    /\ (cleaned # {} /\ intersected = {}) => \A e \in Nodes : ~show[e]

\* C3: a callback that runs after the cleanup of its observer changes no
\* reveal mark and raises nothing.
LateEventIgnored ==
    [][\A o \in cleaned : Delivered(o) => (show' = show /\ error' = error)]_vars

\* C4: without the IntersectionObserver facility the effect raises nothing
\* and the view stays mounted, with nothing observed and nothing revealed.
UnavailableIsSilent ==
    ~facility =>
        /\ ~error
        /\ phase # "unmounting"
        /\ nObs = 0
        /\ \A e \in Nodes : ~show[e]

\* C5: a callback run marks exactly the targets of its intersecting entries
\* and leaves every other node's mark, the slots and the observed sets as
\* they were.
OnlyTargetChanges ==
    [][\A o \in Observers : Delivered(o) =>
            /\ \A e \in Nodes :
                   show'[e] = (show[e] \/ e \in IntersectingTargets(queue[o]))
            /\ pointsRef' = pointsRef
            /\ targets' = targets]_vars

\* Four observed nodes of which exactly one is revealed.
OneOfFourRevealed ==
    /\ phase = "mounted"
    /\ targets[1] = Nodes
    /\ \E k \in Nodes : show[k] /\ \A j \in Nodes \ {k} : ~show[j]

\* C6: a node carries 'show' only if an intersecting entry for it was
\* delivered earlier.
RevealedOnlyIfIntersected ==
    \A e \in Nodes : show[e] => e \in intersected

\* After the whole life of a view some nodes are revealed and some are not.
SomeRevealedSomeNot ==
    /\ Unmounted
    /\ \E e \in Nodes : show[e] /\ e \in intersected
    /\ \E e \in Nodes : ~show[e]

StopIdempotent ==
    [][\A o \in Observers : Stopped(o) =>
            /\ error' = error
            /\ pointsRef' = pointsRef
            /\ show' = show
            /\ UnobserveAll(targets'[o], pointsRef', 0) =
                   [targets |-> targets'[o], threw |-> FALSE]]_vars

\* The cleanup has run over empty slots, the observations left in place.
StoppedOnEmptySlots ==
    /\ cleaned = {1}
    /\ \A i \in Slots : pointsRef[i] = Null
    /\ targets[1] = Nodes
    /\ ~error

\* C9: a ref callback handed the empty value (React detaching the ref of a
\* view that ran without error) leaves the slots as they were, and no empty
\* slot reaches observe or unobserve, which would throw.
RegisterEmptyIsNoOp ==
    /\ [][(phase = "unmounting" /\ ~error /\ cursor' = cursor + 1) =>
              pointsRef' = pointsRef]_vars
    /\ [](facility => ~error)

\* C10: the effect runs after the four refs are attached, so the mounted
\* view observes every node, and every node with an intersecting entry
\* pending is eventually revealed.
EventuallyRevealed ==
    /\ [](phase = "mounted" => targets[1] = Nodes)
    /\ \A e \in Nodes : PendingReveal(e) ~> show[e]

\* A mounted view, all nodes observed, some node revealed by a delivery.
RevealedWhileMounted ==
    /\ phase = "mounted"
    /\ targets[1] = Nodes
    /\ \E e \in Nodes : show[e] /\ ~PendingReveal(e)

====
